---- MODULE Spec2Model ----
(***************************************************************************)
(* The airline-sentiment dashboard (src/app.py) as a state machine.        *)
(*                                                                         *)
(* The script is run top to bottom once per user interaction (a render     *)
(* pass).  One action models each section of the script; `pc` is the       *)
(* script's position.  `out` holds the elements the last executed section  *)
(* sent to the page, `page` records for every slot of the page what the    *)
(* current pass has put there.  Widget values are inputs of the pass: each *)
(* widget call draws its value when the script reaches it.                 *)
(*                                                                         *)
(* A DataFrame is a record [columns, dtypes, rows]; a row is a function    *)
(* from column names to values.  A timestamp is a number of hours (24 to   *)
(* the day), a date a number of days, day 0 a Monday.                      *)
(***************************************************************************)
EXTENDS Integers, Sequences, FiniteSets, TLC

VARIABLES
    file,            \* the rows of Tweets.csv
    cache,           \* the value memoized by st.cache_data for load_data()
    reads,           \* how many times pd.read_csv has run
    shared,          \* TRUE when `data` is the memoized object itself, not a copy
    pc,              \* position of the script in the current render pass
    data,            \* the script's global `data`
    selected_dates,  \* what st.sidebar.date_input returned in this pass
    out,             \* the elements sent to the page by the last section run
    page,            \* slot -> what this pass has rendered there
    clickable        \* the export button of the previous pass is on the page

vars == <<file, cache, reads, shared, pc, data, selected_dates, out, page, clickable>>

----------------------------------------------------------------------------
(* Bounds of the model *)

MaxRows == 7      \* Tweets.csv holds a non-empty selection of the first MaxRows sample rows
MaxReads == 2     \* cap on the read counter

(* Program constants *)

HourMin == 0
HourMax == 23
HourDefaultLo == 9
HourDefaultHi == 17
MaxWordsMin == 50
MaxWordsMax == 300
MaxWordsDefault == 150

Sentiments == {"positive", "neutral", "negative"}
DefaultAirlines == <<"United", "American", "Delta">>
VizTypes == {"Bar plot", "Pie chart"}
TimeAggs == {"Hourly", "Daily", "Weekly"}
Colormaps == {"viridis", "plasma", "inferno", "magma", "cividis"}
CustomStopwords == {"http", "https", "co", "RT"}
\* a few entries of wordcloud.STOPWORDS, enough for the sample texts
STOPWORDS == {"the", "to", "a"}

NoCache == [columns |-> <<>>, dtypes |-> <<>>, rows |-> <<>>, empty |-> TRUE]
NoData == [columns |-> <<>>, dtypes |-> <<>>, rows |-> <<>>]

----------------------------------------------------------------------------
(* Sample content of Tweets.csv.  tweet_created is the raw text of the     *)
(* column, the pair <<day, hour of day>>.                                   *)

SampleRows == <<
    [airline |-> "United",   airline_sentiment |-> "negative", tweet_created |-> <<5, 9>>,
     text |-> <<"late", "flight">>],
    [airline |-> "Delta",    airline_sentiment |-> "positive", tweet_created |-> <<5, 17>>,
     text |-> <<"great", "crew">>],
    [airline |-> "American", airline_sentiment |-> "neutral",  tweet_created |-> <<6, 12>>,
     text |-> <<"http", "co">>],
    [airline |-> "United",   airline_sentiment |-> "negative", tweet_created |-> <<7, 8>>,
     text |-> <<"RT", "delayed", "the", "flight">>],
    [airline |-> "Delta",    airline_sentiment |-> "positive", tweet_created |-> <<7, 18>>,
     text |-> <<"thanks">>],
    [airline |-> "United",   airline_sentiment |-> "positive", tweet_created |-> <<6, 23>>,
     text |-> <<"great", "flight">>],
    [airline |-> "Delta",    airline_sentiment |-> "negative", tweet_created |-> <<6, 0>>,
     text |-> <<"lost", "bag">>] >>

SampleRow(i) ==
    LET r == SampleRows[((i - 1) % Len(SampleRows)) + 1]
    IN  [tweet_id |-> i, airline_sentiment |-> r.airline_sentiment, airline |-> r.airline,
         text |-> r.text, tweet_created |-> r.tweet_created]

RECURSIVE RowsOf(_, _)
RowsOf(S, i) ==
    IF i > MaxRows THEN <<>>
    ELSE (IF i \in S THEN <<SampleRow(i)>> ELSE <<>>) \o RowsOf(S, i + 1)

Files == {RowsOf(S, 1) : S \in (SUBSET (1..MaxRows)) \ {{}}}

CsvColumns == <<"tweet_id", "airline_sentiment", "airline", "text", "tweet_created">>

----------------------------------------------------------------------------
(* pandas *)

Range(s) == {s[i] : i \in DOMAIN s}

Contains(s, v) == \E i \in DOMAIN s : s[i] = v

SetField(r, c, v) == [k \in (DOMAIN r) \cup {c} |-> IF k = c THEN v ELSE r[k]]

\* df[c] = values: assigns a column in place, appending it when it is new
WithColumn(t, c, dtype, values) ==
    [columns |-> IF Contains(t.columns, c) THEN t.columns ELSE Append(t.columns, c),
     dtypes  |-> SetField(t.dtypes, c, dtype),
     rows    |-> [i \in 1..Len(t.rows) |-> SetField(t.rows[i], c, values[i])]]

\* df[c]
Column(t, c) == [i \in 1..Len(t.rows) |-> t.rows[i][c]]

\* df[mask], mask a boolean Series: the rows where the mask holds, in their
\* order, all columns kept
BoolIndex(t, mask) ==
    LET kept == SelectSeq([i \in 1..Len(t.rows) |-> i], LAMBDA i : mask[i])
    IN  [columns |-> t.columns, dtypes |-> t.dtypes,
         rows |-> [k \in 1..Len(kept) |-> t.rows[kept[k]]]]

read_csv(f) ==
    [columns |-> CsvColumns,
     dtypes  |-> [c \in Range(CsvColumns) |-> IF c = "tweet_id" THEN "int64" ELSE "object"],
     rows    |-> f]

to_datetime(raw) == raw[1] * 24 + raw[2]
dt_date(ts) == ts \div 24
dt_hour(ts) == ts % 24
\* .dt.to_period('W').astype(str): "<monday>/<sunday>" of the week of ts
dt_week_str(ts) ==
    LET monday == (dt_date(ts) \div 7) * 7
    IN  <<monday, monday + 6>>

load_data_body(f) ==
    LET t1 == read_csv(f)
        t2 == WithColumn(t1, "tweet_created", "datetime64",
                         [i \in 1..Len(t1.rows) |-> to_datetime(t1.rows[i].tweet_created)])
    IN  WithColumn(t2, "date", "object",
                   [i \in 1..Len(t2.rows) |-> dt_date(t2.rows[i].tweet_created)])

\* the call without memoization: the file is read on every call
load_data_uncached(c, f) ==
    [value |-> load_data_body(f), cache |-> load_data_body(f), read |-> 1, shared |-> FALSE]

\* @st.cache_data: on a miss the body runs and its value is stored serialized;
\* on a hit a fresh copy of the stored value is returned
load_data(c, f) ==
    IF c = NoCache
    THEN [value |-> load_data_body(f), cache |-> load_data_body(f), read |-> 1,
          shared |-> FALSE]
    ELSE [value |-> c, cache |-> c, read |-> 0, shared |-> FALSE]

RECURSIVE SeqMin(_)
SeqMin(s) ==
    IF Len(s) = 1 THEN s[1]
    ELSE LET m == SeqMin(Tail(s)) IN IF s[1] <= m THEN s[1] ELSE m

RECURSIVE SeqMax(_)
SeqMax(s) ==
    IF Len(s) = 1 THEN s[1]
    ELSE LET m == SeqMax(Tail(s)) IN IF s[1] >= m THEN s[1] ELSE m

\* Series.unique(): the values in order of first appearance
RECURSIVE unique(_)
unique(s) ==
    IF s = <<>> THEN <<>>
    ELSE LET u == unique(SubSeq(s, 1, Len(s) - 1))
         IN  IF Contains(u, s[Len(s)]) THEN u ELSE Append(u, s[Len(s)])

CountOf(s, v) == Cardinality({i \in DOMAIN s : s[i] = v})

\* stable insertion of e into a sequence sorted by descending count
RECURSIVE InsertByCountDesc(_, _)
InsertByCountDesc(sorted, e) ==
    IF sorted = <<>> THEN <<e>>
    ELSE IF sorted[Len(sorted)].count >= e.count THEN Append(sorted, e)
    ELSE Append(InsertByCountDesc(SubSeq(sorted, 1, Len(sorted) - 1), e), sorted[Len(sorted)])

RECURSIVE SortByCountDesc(_)
SortByCountDesc(s) ==
    IF s = <<>> THEN <<>>
    ELSE InsertByCountDesc(SortByCountDesc(SubSeq(s, 1, Len(s) - 1)), s[Len(s)])

\* a count of the two most frequent values only, as .value_counts().head(2) gives
value_counts_head(s) ==
    LET u == unique(s)
        all == SortByCountDesc([i \in 1..Len(u) |-> [key |-> u[i], count |-> CountOf(s, u[i])]])
    IN  SubSeq(all, 1, IF Len(all) < 2 THEN Len(all) ELSE 2)

\* Series.value_counts(): one entry per distinct value, most frequent first
value_counts(s) ==
    LET u == unique(s)
    IN  SortByCountDesc([i \in 1..Len(u) |-> [key |-> u[i], count |-> CountOf(s, u[i])]])

\* .reset_index() followed by .columns = ['Sentiment', 'Count']
reset_index(vc) ==
    [columns |-> <<"Sentiment", "Count">>,
     dtypes  |-> [Sentiment |-> "object", Count |-> "int64"],
     rows    |-> [i \in 1..Len(vc) |-> [Sentiment |-> vc[i].key, Count |-> vc[i].count]]]

\* the order of Python strings on the three labels
StrRank(s) == CASE s = "negative" -> 1 [] s = "neutral" -> 2 [] s = "positive" -> 3

\* order of two values of a column of the given dtype
ValueLess(dtype, a, b) == IF dtype = "str" THEN a[1] < b[1] ELSE a < b

\* order of the group keys (time, airline_sentiment)
KeyLess(dtype, a, b) ==
    \/ ValueLess(dtype, a.time, b.time)
    \/ a.time = b.time /\ StrRank(a.airline_sentiment) < StrRank(b.airline_sentiment)

RECURSIVE InsertByKey(_, _, _)
InsertByKey(dtype, sorted, e) ==
    IF sorted = <<>> THEN <<e>>
    ELSE IF KeyLess(dtype, e, sorted[Len(sorted)])
    THEN Append(InsertByKey(dtype, SubSeq(sorted, 1, Len(sorted) - 1), e), sorted[Len(sorted)])
    ELSE Append(sorted, e)

RECURSIVE SortByKey(_, _)
SortByKey(dtype, s) ==
    IF s = <<>> THEN <<>>
    ELSE InsertByKey(dtype, SortByKey(dtype, SubSeq(s, 1, Len(s) - 1)), s[Len(s)])

\* df.groupby(['time', 'airline_sentiment']).size().reset_index(name='count'):
\* one row per observed key pair, sorted by key
groupby_size(t) ==
    LET keys == [i \in 1..Len(t.rows) |->
                    [time |-> t.rows[i].time, airline_sentiment |-> t.rows[i].airline_sentiment]]
        u == unique(keys)
    IN  SortByKey(t.dtypes.time,
                  [i \in 1..Len(u) |->
                      [time |-> u[i].time, airline_sentiment |-> u[i].airline_sentiment,
                       count |-> CountOf(keys, u[i])]])

\* the 'time' column of the chosen aggregation
time_bucket(time_agg, ts) ==
    CASE time_agg = "Hourly" -> dt_hour(ts)
      [] time_agg = "Daily"  -> dt_date(ts)
      [] OTHER               -> dt_week_str(ts)

time_dtype(time_agg) ==
    CASE time_agg = "Hourly" -> "int32"
      [] time_agg = "Daily"  -> "object"
      [] OTHER               -> "str"

\* the mask of line 46 with the upper bound left out of the range
date_mask_exclusive(date, sel) == date >= sel[1] /\ date < sel[2]

\* line 46
date_mask(date, sel) == date >= sel[1] /\ date <= sel[2]

\* the mask of lines 101-102 with the lower bound left out of the range
hour_mask_exclusive(hour, hour_range) == hour > hour_range[1] /\ hour <= hour_range[2]

\* lines 101-102
hour_mask(hour, hour_range) == hour >= hour_range[1] /\ hour <= hour_range[2]

\* what st.sidebar.date_input can return for a range picker bounded by
\* [lo, hi]: one date while the range is being picked, else two ordered dates
DateSelections(lo, hi) ==
    {<<a>> : a \in lo..hi} \cup {s \in (lo..hi) \X (lo..hi) : s[1] <= s[2]}

\* the values the hour slider is moved to: its ends and its default ends
HourMarks == {HourMin, HourDefaultLo, HourDefaultHi, HourMax}

\* st.slider("Select hour range", 0, 23, (9, 17)): an ordered pair within [0, 23]
HourRanges == {hr \in HourMarks \X HourMarks : hr[1] <= hr[2]}

\* the values the word slider is moved to
MaxWordsMarks == {MaxWordsMin, MaxWordsDefault, MaxWordsMax}

\* the lists without repetition over the set S, in every order of picking
Picks(S) ==
    {p \in UNION {[1..n -> S] : n \in 0..Cardinality(S)} :
        \A i, j \in DOMAIN p : i # j => p[i] # p[j]}

\* st.multiselect validates every default value against the options on each run
multiselect_accepts(options, default) ==
    \A i \in DOMAIN default : Contains(options, default[i])

\* what st.multiselect returns when it accepts its arguments: the default or
\* the user's picks among the options
MultiselectValues(options, default) == {default} \cup Picks(Range(options))

\* ' '.join(...) of token lists
RECURSIVE join(_)
join(texts) == IF texts = <<>> THEN <<>> ELSE texts[1] \o join(Tail(texts))

\* WordCloud.process_text: the tokens that are no stopwords
process_text(text, stopwords) == SelectSeq(text, LAMBDA w : w \notin stopwords)

\* WordCloud.generate_from_frequencies: the max_words most frequent words
generate_from_frequencies(words, max_words) ==
    LET freq == value_counts(words)
    IN  SubSeq(freq, 1, IF Len(freq) < max_words THEN Len(freq) ELSE max_words)

\* DataFrame.to_csv(index=False): a header line, then one line per row, the
\* cells in column order
to_csv(t) ==
    <<t.columns>> \o
    [i \in 1..Len(t.rows) |-> [j \in 1..Len(t.columns) |-> t.rows[i][t.columns[j]]]]

\* outcomes of requests.get(...) followed by raise_for_status()
FetchOutcomes == {"ok", "Timeout", "HTTPError", "ConnectionError"}

\* an except clause for HTTPError alone
caught_http_only(outcome) == outcome = "HTTPError"

\* except requests.exceptions.RequestException: Timeout, HTTPError and
\* ConnectionError are all subclasses of it
caught(outcome) == outcome \in {"Timeout", "HTTPError", "ConnectionError"}

----------------------------------------------------------------------------
(* The page *)

Slots == {"date_error", "sentiment_chart", "time_series", "map", "comparison",
          "wordcloud", "export", "avatar", "about", "exception"}

BlankPage == [s \in Slots |-> "none"]

----------------------------------------------------------------------------
Init ==
    /\ file \in Files
    /\ cache = NoCache
    /\ reads = 0
    /\ shared = FALSE
    /\ pc = "load"
    /\ data = NoData
    /\ selected_dates = <<>>
    /\ out = [kind |-> "start"]
    /\ page = BlankPage
    /\ clickable = FALSE

\* lines 21-32
LoadData ==
    /\ pc = "load"
    /\ LET r == load_data(cache, file)
       IN  /\ r.read = 0 \/ reads < MaxReads
           /\ data' = r.value
           /\ cache' = r.cache
           /\ reads' = reads + r.read
           /\ shared' = r.shared
           /\ out' = [kind |-> "load", from |-> IF r.read = 1 THEN "file" ELSE "cache"]
    /\ pc' = "date_input"
    /\ UNCHANGED <<file, selected_dates, page, clickable>>

\* lines 35-48
SelectDates ==
    /\ pc = "date_input"
    /\ LET min_date == SeqMin(Column(data, "date"))
           max_date == SeqMax(Column(data, "date"))
       IN  \E sel \in DateSelections(min_date, max_date) :
             /\ selected_dates' = sel
             /\ IF Len(sel) = 2
                THEN /\ data' = BoolIndex(data, [i \in 1..Len(data.rows) |->
                                                   date_mask(data.rows[i].date, sel)])
                     /\ shared' = FALSE
                     /\ page' = page
                     /\ out' = [kind |-> "date_input"]
                ELSE /\ data' = data
                     /\ shared' = shared
                     /\ page' = [page EXCEPT !["date_error"] = "error"]
                     /\ out' = [kind |-> "error", text |-> "Please select a date range"]
    /\ pc' = "tab1_sentiment"
    /\ UNCHANGED <<file, cache, reads, clickable>>

\* lines 54-71
Tab1Sentiment ==
    /\ pc = "tab1_sentiment"
    /\ \E viz_type \in VizTypes :
         LET sentiment_count == reset_index(value_counts(Column(data, "airline_sentiment")))
         IN  out' = [kind |-> IF viz_type = "Bar plot" THEN "bar" ELSE "pie",
                     sentiment_count |-> sentiment_count]
    /\ page' = [page EXCEPT !["sentiment_chart"] = "chart"]
    /\ pc' = "tab1_time"
    /\ UNCHANGED <<file, cache, reads, shared, data, selected_dates, clickable>>

\* lines 73-92
Tab1TimeSeries ==
    /\ pc = "tab1_time"
    /\ \E time_agg \in TimeAggs :
         LET assigned == WithColumn(data, "time", time_dtype(time_agg),
                                    [i \in 1..Len(data.rows) |->
                                        time_bucket(time_agg, data.rows[i].tweet_created)])
         IN  /\ data' = assigned
             \* the assignment is in place: it reaches the memoized object
             \* only when `data` is that object
             /\ cache' = IF shared THEN assigned ELSE cache
             /\ out' = [kind |-> "line", time_series |-> groupby_size(assigned)]
    /\ page' = [page EXCEPT !["time_series"] = "chart"]
    /\ pc' = "tab2"
    /\ UNCHANGED <<file, reads, shared, selected_dates, clickable>>

\* lines 95-110
Tab2 ==
    /\ pc = "tab2"
    /\ \E hour_range \in HourRanges, preview \in BOOLEAN :
         LET filtered_data ==
                 BoolIndex(data, [i \in 1..Len(data.rows) |->
                     hour_mask(dt_hour(data.rows[i].tweet_created), hour_range)])
         IN  out' = [kind |-> "map",
                     hour_range |-> hour_range,
                     count |-> Len(filtered_data.rows),
                     map |-> filtered_data.rows,
                     preview |-> IF preview
                                 THEN [i \in 1..Len(filtered_data.rows) |->
                                          [c \in {"text", "airline", "airline_sentiment",
                                                  "tweet_created"} |-> filtered_data.rows[i][c]]]
                                 ELSE <<>>]
    /\ page' = [page EXCEPT !["map"] = "map"]
    /\ pc' = "tab3"
    /\ UNCHANGED <<file, cache, reads, shared, data, selected_dates, clickable>>

\* lines 113-145
Tab3 ==
    /\ pc = "tab3"
    /\ LET options == unique(Column(data, "airline"))
       IN  IF multiselect_accepts(options, DefaultAirlines)
           THEN /\ \E selected_airlines \in MultiselectValues(options, DefaultAirlines) :
                     IF selected_airlines # <<>>
                     THEN /\ out' = [kind |-> "subplots",
                                     cols |-> Len(selected_airlines),
                                     subplot_titles |-> selected_airlines,
                                     traces |->
                                       [idx \in 1..Len(selected_airlines) |->
                                          LET airline == selected_airlines[idx]
                                              airline_data ==
                                                  BoolIndex(data, [i \in 1..Len(data.rows) |->
                                                                 data.rows[i].airline = airline])
                                              counts == value_counts(
                                                  Column(airline_data, "airline_sentiment"))
                                          IN  [name |-> airline,
                                               col |-> idx,
                                               x |-> [i \in 1..Len(counts) |-> counts[i].key],
                                               y |-> [i \in 1..Len(counts) |-> counts[i].count]]]]
                          /\ page' = [page EXCEPT !["comparison"] = "chart"]
                     ELSE /\ out' = [kind |-> "warning",
                                     text |-> "Please select at least one airline"]
                          /\ page' = [page EXCEPT !["comparison"] = "notice"]
                /\ pc' = "tab4"
                /\ clickable' = clickable
           ELSE \* StreamlitAPIException: the script stops, the page keeps what
                \* was rendered so far and shows the exception
                /\ out' = [kind |-> "exception", error |-> "StreamlitAPIException",
                           at |-> "multiselect"]
                /\ page' = [page EXCEPT !["exception"] = "error"]
                /\ pc' = "crashed"
                /\ clickable' = FALSE
    /\ UNCHANGED <<file, cache, reads, shared, data, selected_dates>>

\* lines 148-199
Tab4 ==
    /\ pc = "tab4"
    /\ \E word_sentiment \in Sentiments, max_words \in MaxWordsMarks, colormap \in Colormaps :
         LET df == BoolIndex(data, [i \in 1..Len(data.rows) |->
                                     data.rows[i].airline_sentiment = word_sentiment])
             text == join(Column(df, "text"))
             stopwords == STOPWORDS \cup CustomStopwords
             words == process_text(text, stopwords)
         IN  IF words # <<>>
             THEN /\ out' = [kind |-> "wordcloud",
                             word_sentiment |-> word_sentiment,
                             colormap |-> colormap,
                             max_words |-> max_words,
                             words |-> generate_from_frequencies(words, max_words),
                             file_name |-> <<word_sentiment, "_wordcloud.png">>]
                  /\ page' = [page EXCEPT !["wordcloud"] = "image"]
                  /\ pc' = "export"
                  /\ clickable' = clickable
             ELSE \* WordCloud.generate raises ValueError: at least 1 word is needed
                  /\ out' = [kind |-> "exception", error |-> "ValueError",
                             at |-> "WordCloud.generate", word_sentiment |-> word_sentiment]
                  /\ page' = [page EXCEPT !["exception"] = "error"]
                  /\ pc' = "crashed"
                  /\ clickable' = FALSE
    /\ UNCHANGED <<file, cache, reads, shared, data, selected_dates>>

\* lines 202-211: st.sidebar.button is TRUE only in the pass its click started
Export ==
    /\ pc = "export"
    /\ \E clicked \in (IF clickable THEN BOOLEAN ELSE {FALSE}) :
         IF clicked
         THEN /\ out' = [kind |-> "download_button", csv |-> to_csv(data),
                         file_name |-> "airline_tweets.csv", mime |-> "text/csv"]
              /\ page' = [page EXCEPT !["export"] = "download"]
         ELSE /\ out' = [kind |-> "button"]
              /\ page' = [page EXCEPT !["export"] = "button"]
    /\ clickable' = TRUE
    /\ pc' = "avatar"
    /\ UNCHANGED <<file, cache, reads, shared, data, selected_dates>>

\* lines 213-223
Avatar ==
    /\ pc = "avatar"
    /\ \E outcome \in FetchOutcomes :
         IF outcome = "ok"
         THEN /\ out' = [kind |-> "image", caption |-> "Moon Benjee"]
              /\ page' = [page EXCEPT !["avatar"] = "image"]
              /\ pc' = "about"
              /\ clickable' = clickable
         ELSE IF caught(outcome)
         THEN /\ out' = [kind |-> "error", text |-> <<"Error loading image: ", outcome>>]
              /\ page' = [page EXCEPT !["avatar"] = "error"]
              /\ pc' = "about"
              /\ clickable' = clickable
         ELSE /\ out' = [kind |-> "exception", error |-> outcome, at |-> "requests.get"]
              /\ page' = [page EXCEPT !["exception"] = "error"]
              /\ pc' = "crashed"
              /\ clickable' = FALSE
    /\ UNCHANGED <<file, cache, reads, shared, data, selected_dates>>

\* lines 225-238
About ==
    /\ pc = "about"
    /\ out' = [kind |-> "info"]
    /\ page' = [page EXCEPT !["about"] = "shown"]
    /\ pc' = "done"
    /\ UNCHANGED <<file, cache, reads, shared, data, selected_dates, clickable>>

\* a user interaction after the pass has ended: the script runs again from
\* its first line, with fresh globals and a page to fill again
Rerun ==
    /\ pc \in {"done", "crashed"}
    /\ pc' = "load"
    /\ data' = NoData
    /\ selected_dates' = <<>>
    /\ shared' = FALSE
    /\ out' = [kind |-> "start"]
    /\ page' = BlankPage
    /\ UNCHANGED <<file, cache, reads, clickable>>

Next ==
    \/ LoadData
    \/ SelectDates
    \/ Tab1Sentiment
    \/ Tab1TimeSeries
    \/ Tab2
    \/ Tab3
    \/ Tab4
    \/ Export
    \/ Avatar
    \/ About
    \/ Rerun

Spec == Init /\ [][Next]_vars

----------------------------------------------------------------------------
(* What the properties are stated in: the file as it is on disk *)

InPass == pc \notin {"load", "date_input"}

FileDay(r) == r.tweet_created[1]
FileHour(r) == r.tweet_created[2]
FileRow(id) == CHOOSE r \in Range(file) : r.tweet_id = id

Ids(rows) == [i \in 1..Len(rows) |-> rows[i].tweet_id]

RECURSIVE SumSeq(_)
SumSeq(s) == IF s = <<>> THEN 0 ELSE s[1] + SumSeq(Tail(s))

Position(s, v) == CHOOSE k \in DOMAIN s : s[k] = v

\* the rows of the file dated within the selection, in file order
FileRowsWithin(sel) == SelectSeq(file, LAMBDA r : sel[1] <= FileDay(r) /\ FileDay(r) <= sel[2])

\* the rows of `data` are these file rows, in this order, with the file's values
SameRows(rows, fileRows) ==
    /\ Len(rows) = Len(fileRows)
    /\ \A i \in 1..Len(rows) :
         /\ rows[i].tweet_id = fileRows[i].tweet_id
         /\ rows[i].airline = fileRows[i].airline
         /\ rows[i].airline_sentiment = fileRows[i].airline_sentiment
         /\ rows[i].text = fileRows[i].text
         /\ rows[i].tweet_created \div 24 = FileDay(fileRows[i])
         /\ rows[i].tweet_created % 24 = FileHour(fileRows[i])

----------------------------------------------------------------------------
\* C1: when the date selection does not hold exactly two bounds, the
\* condition is reported and no date-dependent panel or export of the pass
\* is rendered (none is computed from the unfiltered table).
C1_MalformedSelectionSkipsPanels ==
    (InPass /\ Len(selected_dates) # 2) =>
        /\ page["date_error"] = "error"
        /\ \A s \in {"sentiment_chart", "time_series", "map", "comparison",
                     "wordcloud", "export"} : page[s] = "none"

\* C2: a pass with an empty result (the date filter leaves no row, or the
\* sentiment class of the word cloud has no row) raises no exception.
C2_EmptyResultNeverRaises ==
    (InPass /\ (\/ data.rows = <<>>
                \/ /\ out.kind = "exception"
                   /\ out.at = "WordCloud.generate"
                   /\ \A i \in DOMAIN data.rows :
                        data.rows[i].airline_sentiment # out.word_sentiment))
        => pc # "crashed"

\* C3: after a two-bound selection [lo, hi] the table every later section
\* reads holds exactly the file's rows with lo <= date <= hi, in file order.
C3_DateFilterExact ==
    (InPass /\ Len(selected_dates) = 2) =>
        SameRows(data.rows, FileRowsWithin(selected_dates))

C3_Witness ==
    /\ pc = "tab1_sentiment"
    /\ Len(selected_dates) = 2
    /\ selected_dates[1] < selected_dates[2]
    /\ \E i \in DOMAIN data.rows : data.rows[i].date = selected_dates[1]
    /\ \E i \in DOMAIN data.rows : data.rows[i].date = selected_dates[2]
    /\ \E i \in DOMAIN file : FileDay(file[i]) > selected_dates[2]

\* C4: the avatar section never ends the pass, whatever the fetch does: it
\* hands over to the rest of the sidebar, leaves the table and every other
\* slot of the page as they were, and a failed fetch shows an error message
\* holding its cause.
C4_AvatarFailureContained ==
    [][pc = "avatar" =>
          /\ pc' = "about"
          /\ data' = data
          /\ \A s \in Slots \ {"avatar"} : page'[s] = page[s]
          /\ page'["avatar"] \in {"image", "error"}
          /\ page'["avatar"] = "error" =>
                /\ out'.kind = "error"
                /\ out'.text[1] = "Error loading image: "
                /\ out'.text[2] \in FetchOutcomes \ {"ok"}]_vars

C4_Witness ==
    /\ pc = "done"
    /\ page["avatar"] = "error"
    /\ page["about"] = "shown"
    /\ page["exception"] = "none"

\* C5: the comparison chart has one sub-panel per selected airline, and two
\* sentiment categories never appear in one order in one sub-panel and in
\* the other order in another (compared where their counts differ, so that
\* the order among equal counts plays no part).
C5_SubPanelsFixedOrder ==
    (pc = "tab4" /\ out.kind = "subplots") =>
        /\ out.cols = Len(out.subplot_titles)
        /\ Len(out.traces) = Len(out.subplot_titles)
        /\ \A i \in DOMAIN out.traces :
             out.traces[i].name = out.subplot_titles[i] /\ out.traces[i].col = i
        /\ \A i, j \in DOMAIN out.traces : \A s, t \in Sentiments :
             LET xi == out.traces[i].x
                 xj == out.traces[j].x
                 yi == out.traces[i].y
                 yj == out.traces[j].y
             IN  (/\ Contains(xi, s) /\ Contains(xi, t)
                  /\ Contains(xj, s) /\ Contains(xj, t)
                  /\ yi[Position(xi, s)] # yi[Position(xi, t)]
                  /\ yj[Position(xj, s)] # yj[Position(xj, t)]
                  /\ Position(xi, s) < Position(xi, t))
                 => Position(xj, s) < Position(xj, t)

\* C6: the counts of each aggregation sum to the number of rows of the table
\* it was given: the sentiment distribution and the time series over `data`,
\* each airline's sentiment counts over that airline's rows.
C6_AggregationConservesRows ==
    /\ pc = "tab1_time" =>
          SumSeq(Column(out.sentiment_count, "Count")) = Len(data.rows)
    /\ pc = "tab2" =>
          SumSeq([i \in 1..Len(out.time_series) |-> out.time_series[i].count])
              = Len(data.rows)
    /\ (pc = "tab4" /\ out.kind = "subplots") =>
          \A i \in DOMAIN out.traces :
              SumSeq(out.traces[i].y)
                  = Cardinality({k \in DOMAIN data.rows :
                                    data.rows[k].airline = out.subplot_titles[i]})

C6_Witness ==
    /\ pc = "tab4"
    /\ out.kind = "subplots"
    /\ Len(out.traces) >= 2
    /\ \E i \in DOMAIN out.traces : Len(out.traces[i].y) >= 2 /\ SumSeq(out.traces[i].y) >= 3

\* C7: the file is read at most once, the memoized table keeps the rows that
\* were loaded, and every pass starts from those rows, whatever the passes
\* before it filtered or assigned.
C7_LoadedOnceAndUnchanged ==
    /\ reads <= 1
    /\ cache # NoCache => SameRows(cache.rows, file)
    /\ pc = "date_input" => SameRows(data.rows, file)

C7_Witness ==
    /\ pc = "date_input"
    /\ out.from = "cache"
    /\ reads = 1

\* C8: an export that is produced holds a header line and exactly the rows
\* of the date-filtered table and is named airline_tweets.csv; and a pass
\* whose date-filtered table has no row still comes to offer the export.
C8_ExportHoldsFilteredRows ==
    /\ (pc = "avatar" /\ out.kind = "download_button" /\ Len(selected_dates) = 2) =>
          /\ out.file_name = "airline_tweets.csv"
          /\ Len(out.csv) = 1 + Len(FileRowsWithin(selected_dates))
          /\ out.csv[1] = data.columns
          /\ \A i \in 1..Len(FileRowsWithin(selected_dates)) :
                out.csv[i + 1][1] = FileRowsWithin(selected_dates)[i].tweet_id
    /\ (pc \in {"done", "crashed"} /\ Len(selected_dates) = 2 /\ data.rows = <<>>) =>
          page["export"] # "none"

\* C9: the map's table and its tweet count are exactly the rows of `data`
\* whose hour of day lies in the slider's range, both ends included, and
\* `data` itself is still the date-filtered table.
C9_HourFilterExact ==
    pc = "tab3" =>
        LET hr == out.hour_range
            expected == SelectSeq(data.rows,
                            LAMBDA r : /\ hr[1] <= FileHour(FileRow(r.tweet_id))
                                       /\ FileHour(FileRow(r.tweet_id)) <= hr[2])
        IN  /\ Ids(out.map) = Ids(expected)
            /\ out.count = Len(expected)
            /\ SameRows(data.rows, IF Len(selected_dates) = 2
                                   THEN FileRowsWithin(selected_dates) ELSE file)

C9_Witness ==
    /\ pc = "tab3"
    /\ out.hour_range[1] < out.hour_range[2]
    /\ out.count < Len(data.rows)
    /\ \E i \in DOMAIN out.map : FileHour(FileRow(out.map[i].tweet_id)) = out.hour_range[1]
    /\ \E i \in DOMAIN out.map : FileHour(FileRow(out.map[i].tweet_id)) = out.hour_range[2]

\* C10: when the script reaches the airline multi-select, each of its
\* default airlines is among the airlines of the date-filtered table.
C10_DefaultWithinOptions ==
    pc = "tab3" =>
        \A i \in DOMAIN DefaultAirlines :
            \E k \in DOMAIN data.rows : data.rows[k].airline = DefaultAirlines[i]
====
